---- MODULE Spec2Model ----
(***************************************************************************)
(* Anomaly detection over material movement records (src/main.py).         *)
(*                                                                         *)
(* A dataset (pandas DataFrame) is a sequence of rows; the position of a   *)
(* row is its index label.  Only the columns the detection core reads are  *)
(* kept: unidade, material, qtd, custo_unit.  A missing quantity (NaN) is  *)
(* the flag na; qtd is then 0 and never read.                              *)
(*                                                                         *)
(* Numbers.  Quantities are integers.  custo_unit is a multiple of 1/64    *)
(* (exactly representable in binary floating point), so products and the   *)
(* rounding to 2 decimals are exact: money is counted in units of 1/1600   *)
(* (the common denominator of 1/64 and 1/100) and one cent is 16 units.    *)
(* A z-score is kept exactly, as the rational square z^2 = num/den.  The   *)
(* code computes it in IEEE-754 doubles: when the exact |z| equals the     *)
(* threshold the computed value lies within a few ulp on either side of    *)
(* it, so the strict comparison may come out either way; everywhere else   *)
(* the comparison is decided by the exact values.                          *)
(***************************************************************************)
EXTENDS Integers, Sequences, FiniteSets, TLC

VARIABLES df, z_thresh, k, flag_zscore, flag_iqr, painel, impacto_total, pc

vars == <<df, z_thresh, k, flag_zscore, flag_iqr, painel, impacto_total, pc>>

\* ------------------------------------------------------------------ bounds
MaxRecs == 2
MaxDetect == 3
MaxGroup == 11
MaxExtra == 1

\* ------------------------------------------------------------------ domain
CostDen == 2 ^ 6
MoneyDen == 25 * CostDen
Cent == MoneyDen \div 100

Materials == {"MAT-001", "MAT-002"}
GroupKeys == {<<"U01", "MAT-001">>, <<"U01", "MAT-002">>, <<"U02", "MAT-001">>}

\* variant: a default z_thresh of 2.0
DefaultZ_two == <<2, 1>>

\* default z_thresh = 3.0 and k = 1.5, as numerator and denominator
DefaultZ == <<3, 1>>
DefaultK == <<3, 2>>

Row(key, q, isna, cost_map) ==
    [unidade |-> key[1], material |-> key[2], qtd |-> q, na |-> isna,
     custo_unit |-> cost_map[key[2]]]

Abs(x) == IF x < 0 THEN -x ELSE x

\* ------------------------------------------------------------ group-by
\* df.groupby(["unidade", "material"]): the rows of row i's group
GroupIdx(d, i) ==
    {j \in DOMAIN d : d[j].unidade = d[i].unidade /\ d[j].material = d[i].material}

\* the rows of a group whose quantity is present
Present(d, G) == {j \in G : ~d[j].na}

\* the sum of the quantities of the rows of G among the first j rows
RECURSIVE SumQtd(_, _, _)
SumQtd(d, G, j) ==
    IF j = 0 THEN 0
    ELSE (IF j \in G THEN d[j].qtd ELSE 0) + SumQtd(d, G, j - 1)

\* n * (x - mean) for a group of n present values with sum s: an integer
Dev(n, s, x) == n * x - s

\* n^2 * the sum of the squared deviations from the mean, likewise
RECURSIVE SumSqDev(_, _, _, _, _)
SumSqDev(d, G, n, s, j) ==
    IF j = 0 THEN 0
    ELSE (IF j \in G THEN Dev(n, s, d[j].qtd) * Dev(n, s, d[j].qtd) ELSE 0)
             + SumSqDev(d, G, n, s, j - 1)

\* ------------------------------------------------------------ z-score
NaNScore == [nan |-> TRUE, num |-> 0, den |-> 1]

\* variant: the sample standard deviation (ddof=1)
ddof_sample == 0 + 1

\* scipy.stats.zscore default: delta degrees of freedom 0 (population)
ddof == 0

\* variant: an undefined score (0/0) coerced to zero
stats_zscore_nan_as_zero(d, i) ==
    LET G == Present(d, GroupIdx(d, i))
        n == Cardinality(G)
        s == SumQtd(d, G, Len(d))
        ss == SumSqDev(d, G, n, s, Len(d))
    IN IF d[i].na \/ ss = 0
       THEN [nan |-> FALSE, num |-> 0, den |-> 1]
       ELSE [nan |-> FALSE,
             num |-> Dev(n, s, d[i].qtd) * Dev(n, s, d[i].qtd) * (n - ddof),
             den |-> ss]

\* variant: nan_policy="propagate", a missing value makes its group's scores NaN
stats_zscore_propagate(d, i) ==
    LET A == GroupIdx(d, i)
        n == Cardinality(A)
        s == SumQtd(d, A, Len(d))
        ss == SumSqDev(d, A, n, s, Len(d))
    IN IF (\E j \in A : d[j].na) \/ ss = 0
       THEN NaNScore
       ELSE [nan |-> FALSE,
             num |-> Dev(n, s, d[i].qtd) * Dev(n, s, d[i].qtd) * (n - ddof),
             den |-> ss]

\* stats.zscore(x, nan_policy="omit") at row i of its group:
\* z^2 = num/den with mean and standard deviation over the present values;
\* a missing value stays NaN and a constant group gives NaN (0/0).
stats_zscore(d, i) ==
    LET G == Present(d, GroupIdx(d, i))
        n == Cardinality(G)
        s == SumQtd(d, G, Len(d))
        ss == SumSqDev(d, G, n, s, Len(d))
    IN IF d[i].na \/ ss = 0
       THEN NaNScore
       ELSE [nan |-> FALSE,
             num |-> Dev(n, s, d[i].qtd) * Dev(n, s, d[i].qtd) * (n - ddof),
             den |-> ss]

\* zscores.abs() > z_thresh on doubles: the outcomes the comparison can have
AbsGt(z, t) ==
    IF z.nan THEN {FALSE}
    ELSE IF t[1] < 0 THEN {TRUE}
    ELSE LET l == z.num * t[2] * t[2]
             r == t[1] * t[1] * z.den
         IN IF l > r THEN {TRUE} ELSE IF l < r THEN {FALSE} ELSE {TRUE, FALSE}

\* calc_zscore_flags(df, z_thresh): the flag columns it can return
calc_zscore_flags(d, t) ==
    LET out == [i \in DOMAIN d |-> AbsGt(stats_zscore(d, i), t)]
        ties == {i \in DOMAIN d : out[i] = {TRUE, FALSE}}
    IN {[i \in DOMAIN d |-> IF i \in ties THEN i \in S ELSE TRUE \in out[i]] :
            S \in SUBSET ties}

\* ------------------------------------------------------------ IQR
\* x put at its place in the ascending sequence s
Insert(x, s) ==
    LET p == Cardinality({t \in DOMAIN s : s[t] <= x})
    IN SubSeq(s, 1, p) \o <<x>> \o SubSeq(s, p + 1, Len(s))

\* the quantities of the rows of G among the first j rows, in ascending order
RECURSIVE SortedQtd(_, _, _)
SortedQtd(d, G, j) ==
    IF j = 0 THEN << >>
    ELSE IF j \in G THEN Insert(d[j].qtd, SortedQtd(d, G, j - 1))
    ELSE SortedQtd(d, G, j - 1)

\* 4 * x.quantile(pn/4), pandas' default linear interpolation at pn/4 * (n-1)
quantile4(xs, pn) ==
    LET pos4 == pn * (Len(xs) - 1)
        lo == (pos4 \div 4) + 1
        fr == pos4 % 4
    IN IF fr = 0 THEN 4 * xs[lo]
       ELSE 4 * xs[lo] + fr * (xs[lo + 1] - xs[lo])

\* variant: a quantity equal to a bound is flagged too
iqr_flag_inclusive(d, i, kk) ==
    LET G == Present(d, GroupIdx(d, i))
        xs == SortedQtd(d, G, Len(d))
        q1 == quantile4(xs, 1)
        q3 == quantile4(xs, 3)
        iqr == q3 - q1
        lower == kk[2] * q1 - kk[1] * iqr
        upper == kk[2] * q3 + kk[1] * iqr
        x == 4 * kk[2] * d[i].qtd
    IN IF d[i].na THEN FALSE
       ELSE x <= lower \/ x >= upper

\* (df["qtd"] < lower) | (df["qtd"] > upper) at row i, bounds scaled by 4*kk[2]
iqr_flag(d, i, kk) ==
    LET G == Present(d, GroupIdx(d, i))
        xs == SortedQtd(d, G, Len(d))
        q1 == quantile4(xs, 1)
        q3 == quantile4(xs, 3)
        iqr == q3 - q1
        lower == kk[2] * q1 - kk[1] * iqr
        upper == kk[2] * q3 + kk[1] * iqr
        x == 4 * kk[2] * d[i].qtd
    IN IF d[i].na THEN FALSE
       ELSE x < lower \/ x > upper

calc_iqr_flags(d, kk) == [i \in DOMAIN d |-> iqr_flag(d, i, kk)]

\* ------------------------------------------------------------ panel
\* variant: only the IQR flag selects a row
flag_any_iqr_only(fz, fi, i) == fi[i]

\* df[["flag_zscore", "flag_iqr"]].any(axis=1)
flag_any(fz, fi, i) == fz[i] \/ fi[i]

\* round(2) of an amount in money units: to the nearest cent, halves to even
Round2(x) ==
    LET q == x \div Cent
        r == x % Cent
    IN IF 2 * r < Cent THEN q * Cent
       ELSE IF 2 * r > Cent THEN (q + 1) * Cent
       ELSE IF q % 2 = 0 THEN q * Cent ELSE (q + 1) * Cent

\* variant: the signed movement value, without abs()
impacto_signed(row) == Round2(row.qtd * row.custo_unit * (MoneyDen \div CostDen))

\* (anomalies["qtd"].abs() * anomalies["custo_unit"]).round(2)
impacto(row) == Round2(Abs(row.qtd) * row.custo_unit * (MoneyDen \div CostDen))

Entry(d, fz, fi, i) ==
    [idx |-> i, unidade |-> d[i].unidade, material |-> d[i].material,
     qtd |-> d[i].qtd, flag_zscore |-> fz[i], flag_iqr |-> fi[i],
     impacto |-> impacto(d[i])]

\* df[df["flag_any"]]: the flagged rows, in the order of the dataset
RECURSIVE Anomalies(_, _, _, _)
Anomalies(d, fz, fi, n) ==
    IF n = 0 THEN << >>
    ELSE IF flag_any(fz, fi, n)
         THEN Append(Anomalies(d, fz, fi, n - 1), Entry(d, fz, fi, n))
         ELSE Anomalies(d, fz, fi, n - 1)

\* variant: ascending order (ascending=False left out)
First_ascending(a, S) == \A b \in S : a.impacto <= b.impacto

\* whether entry a may be placed before every entry of S
First(a, S) == \A b \in S : a.impacto >= b.impacto

\* sort_values("impacto_R$", ascending=False) with the default
\* kind="quicksort", which is not stable: every descending arrangement
RECURSIVE Arrangements(_)
Arrangements(S) ==
    IF S = {} THEN {<< >>}
    ELSE UNION {{<<a>> \o rest : rest \in Arrangements(S \ {a})} :
                    a \in {b \in S : First(b, S)}}

sort_values(anomalies) == Arrangements({anomalies[i] : i \in DOMAIN anomalies})

RECURSIVE SumImpacto(_)
SumImpacto(p) == IF p = << >> THEN 0 ELSE Head(p).impacto + SumImpacto(Tail(p))

\* variant: the mean of the impacts instead of their sum
estimate_mean(p) == IF p = << >> THEN 0 ELSE Round2(SumImpacto(p) \div Len(p))

\* anomalies["impacto_R$"].sum().round(2)
estimate_financial_impact(p) == Round2(SumImpacto(p))

\* ------------------------------------------------------------ inputs
\* the sequences over S of length at most n
SeqsUpTo(S, n) == UNION {[1..m -> S] : m \in 0..n}

\* cost_map: a fixed unit cost per material, in 1/64 (5.015625, 10.03125, 10.0)
CostMaps ==
    {[m \in Materials |-> IF m = "MAT-001" THEN 321 ELSE 642],
     [m \in Materials |-> IF m = "MAT-001" THEN 640 ELSE 321]}

QtdSet == {-2, 0, 1}

RowsOf(cm) ==
    {Row(key, q, FALSE, cm) : key \in GroupKeys, q \in QtdSet}
        \cup {Row(key, 0, TRUE, cm) : key \in GroupKeys}

\* ordinary movements of two groups, one of them with an outlier
Baseline(cm) ==
    LET a == Row(<<"U01", "MAT-001">>, 0, FALSE, cm)
        b == Row(<<"U01", "MAT-002">>, 0, FALSE, cm)
        o == Row(<<"U01", "MAT-001">>, 1, FALSE, cm)
    IN <<a, b, a, b, o, a, b, a>>

\* a group of two levels (4 movements of 1, 11 of 3): wide quartiles
Bimodal(cm) ==
    LET a == Row(<<"U01", "MAT-001">>, 1, FALSE, cm)
        b == Row(<<"U01", "MAT-001">>, 3, FALSE, cm)
    IN <<b, a, b, b, a, b, b, b, a, b, b, a, b, b, b>>

\* datasets of the pipeline: a base followed by up to MaxRecs arbitrary rows
Datasets ==
    UNION {{base \o s : base \in {<< >>, Baseline(cm), Bimodal(cm)},
                        s \in SeqsUpTo(RowsOf(cm), MaxRecs)} : cm \in CostMaps}

\* datasets of the detectors: one group of up to MaxGroup movements of two
\* levels, or up to MaxDetect rows of two groups, quantities possibly missing
OneCost == [m \in Materials |-> 640]

DetectRows ==
    {Row(key, q, FALSE, OneCost) : key \in {<<"U01", "MAT-001">>, <<"U02", "MAT-001">>},
                                  q \in QtdSet}
        \cup {Row(key, 0, TRUE, OneCost) : key \in {<<"U01", "MAT-001">>, <<"U02", "MAT-001">>}}

DetectDatasets ==
    SeqsUpTo({Row(<<"U01", "MAT-001">>, q, FALSE, OneCost) : q \in {4, 5}}, MaxGroup)
        \cup SeqsUpTo(DetectRows, MaxDetect)

ZThreshSet == {DefaultZ, <<3, 2>>, <<-1, 1>>}
KSet == {DefaultK, <<0, 1>>}

\* the scenario group (U01, MAT-001) with quantities 20, 21, 19, 20, -200, 18
ScenarioQtd == <<20, 21, 19, 20, -200, 18>>

ScenarioGroup(cm) ==
    [i \in DOMAIN ScenarioQtd |-> Row(<<"U01", "MAT-001">>, ScenarioQtd[i], FALSE, cm)]

OtherRows(cm) ==
    {Row(key, q, FALSE, cm) : key \in {<<"U01", "MAT-002">>, <<"U02", "MAT-001">>},
                             q \in {-200, 0, 20}}

InsertAt(s, p, r) == SubSeq(s, 1, p) \o <<r>> \o SubSeq(s, p + 1, Len(s))

\* the scenario group with up to n rows of other groups anywhere among it
RECURSIVE WithExtras(_, _)
WithExtras(cm, n) ==
    IF n = 0 THEN {ScenarioGroup(cm)}
    ELSE LET fewer == WithExtras(cm, n - 1)
         IN fewer \cup UNION {{InsertAt(s, p, r) : p \in 0..Len(s), r \in OtherRows(cm)} :
                                  s \in fewer}

ScenarioDatasets == UNION {WithExtras(cm, MaxExtra) : cm \in CostMaps}

\* ------------------------------------------------------------ pipeline
Start ==
    /\ z_thresh = DefaultZ
    /\ k = DefaultK
    /\ flag_zscore = << >>
    /\ flag_iqr = << >>
    /\ painel = << >>
    /\ impacto_total = 0
    /\ pc = "start"

Init == df \in Datasets /\ Start

InitDetect == df \in DetectDatasets /\ Start

InitScenario == df \in ScenarioDatasets /\ Start

\* calc_zscore_flags(df, z_thresh) called on its own
CalcZscoreFlags ==
    /\ pc = "start"
    /\ \E t \in ZThreshSet :
         /\ z_thresh' = t
         /\ flag_zscore' \in calc_zscore_flags(df, t)
    /\ pc' = "zscore"
    /\ UNCHANGED <<df, k, flag_iqr, painel, impacto_total>>

\* calc_iqr_flags(df, k) called on its own
CalcIqrFlags ==
    /\ pc = "start"
    /\ \E kk \in KSet :
         /\ k' = kk
         /\ flag_iqr' = calc_iqr_flags(df, kk)
    /\ pc' = "iqr"
    /\ UNCHANGED <<df, z_thresh, flag_zscore, painel, impacto_total>>

BuildAlertPanel ==
    /\ pc = "start"
    /\ \E fz \in calc_zscore_flags(df, DefaultZ) :
         LET fi == calc_iqr_flags(df, DefaultK)
         IN /\ flag_zscore' = fz
            /\ flag_iqr' = fi
            /\ painel' \in sort_values(Anomalies(df, fz, fi, Len(df)))
    /\ pc' = "panel"
    /\ UNCHANGED <<df, z_thresh, k, impacto_total>>

EstimateFinancialImpact ==
    /\ pc = "panel"
    /\ impacto_total' = estimate_financial_impact(painel)
    /\ pc' = "done"
    /\ UNCHANGED <<df, z_thresh, k, flag_zscore, flag_iqr, painel>>

Next == BuildAlertPanel \/ EstimateFinancialImpact

NextDetect == CalcZscoreFlags \/ CalcIqrFlags

Spec == Init /\ [][Next]_vars

SpecDetect == InitDetect /\ [][NextDetect]_vars

SpecScenario == InitScenario /\ [][Next]_vars

\* ------------------------------------------------------------ properties
Built == pc \in {"panel", "done"}

Flagged(i) == flag_zscore[i] \/ flag_iqr[i]

PanelRowsOf(i) == {p \in DOMAIN painel : painel[p].idx = i}

\* C1: the panel holds exactly the rows whose zscore flag or iqr flag is
\* true, each once and with its own flags; no unflagged row is in it.
C1_PanelIsFlaggedRows ==
    Built =>
        /\ \A p \in DOMAIN painel :
             /\ painel[p].idx \in DOMAIN df
             /\ painel[p].flag_zscore = flag_zscore[painel[p].idx]
             /\ painel[p].flag_iqr = flag_iqr[painel[p].idx]
             /\ painel[p].flag_zscore \/ painel[p].flag_iqr
        /\ \A i \in DOMAIN df :
             Cardinality(PanelRowsOf(i)) = IF Flagged(i) THEN 1 ELSE 0

C1_Witness ==
    /\ pc = "panel"
    /\ \E p \in DOMAIN painel : painel[p].flag_zscore /\ ~painel[p].flag_iqr
    /\ \E i \in DOMAIN df : ~Flagged(i)

\* C2: the panel is in descending order of impact: each entry's impact is
\* at least that of the entry after it.
C2_SortedDescending ==
    Built =>
        \A p \in DOMAIN painel :
            p + 1 \in DOMAIN painel => painel[p].impacto >= painel[p + 1].impacto

C2_Witness ==
    /\ pc = "panel"
    /\ Len(painel) >= 3
    /\ painel[1].impacto > painel[Len(painel)].impacto

\* C3 as stated: entries of equal impact keep the relative order of their
\* rows in the dataset (a stable sort).
C3_StableOrder ==
    Built =>
        \A p, q \in DOMAIN painel :
            (p < q /\ painel[p].impacto = painel[q].impacto)
                => painel[p].idx < painel[q].idx

\* C3 as amended: the order of two entries is decided by their impact
\* alone: of two entries with different impact the one with the higher
\* impact comes first, wherever their rows are in the dataset; entries of
\* equal impact are in no particular order.
C3_OrderByImpactOnly ==
    Built =>
        \A p, q \in DOMAIN painel :
            (p < q /\ painel[p].impacto # painel[q].impacto)
                => painel[p].impacto > painel[q].impacto

C3_Witness ==
    /\ pc = "panel"
    /\ \E p, q \in DOMAIN painel :
         /\ p < q
         /\ painel[p].impacto = painel[q].impacto
         /\ painel[p].idx > painel[q].idx

\* C4: a row whose group has all its quantities identical, or fewer than 2
\* rows, is never flagged by calc_zscore_flags, whatever the threshold.
ConstantGroup(i) ==
    \A j, m \in Present(df, GroupIdx(df, i)) : df[j].qtd = df[m].qtd

C4_DegenerateGroupNeverFlagged ==
    pc = "zscore" =>
        \A i \in DOMAIN df :
            (ConstantGroup(i) \/ Cardinality(GroupIdx(df, i)) < 2) => ~flag_zscore[i]

C4_Witness ==
    /\ pc = "zscore"
    /\ z_thresh[1] < 0
    /\ \E i \in DOMAIN df : ~df[i].na /\ ConstantGroup(i)
    /\ \E i \in DOMAIN df : flag_zscore[i]

\* the sums of a group's present quantities and of their squares
RECURSIVE SumOver(_, _)
SumOver(f, S) ==
    IF S = {} THEN 0
    ELSE LET j == CHOOSE j \in S : TRUE
         IN f[j] + SumOver(f, S \ {j})

Qtd == [i \in DOMAIN df |-> df[i].qtd]
QtdSq == [i \in DOMAIN df |-> df[i].qtd * df[i].qtd]

\* for row i: n^2 * (x - mean)^2, and n * (sum of squared deviations from
\* the mean) = n * (sum of squares) - (sum)^2, from the group's moments
DevSq(i) ==
    LET G == Present(df, GroupIdx(df, i))
        d == Cardinality(G) * df[i].qtd - SumOver(Qtd, G)
    IN d * d

Spread(i) ==
    LET G == Present(df, GroupIdx(df, i))
    IN Cardinality(G) * SumOver(QtdSq, G) - SumOver(Qtd, G) * SumOver(Qtd, G)

\* |score| compared with z_thresh, the score taken with the standard
\* deviation sqrt(sum of squared deviations / divisor): "gt", "lt" or "eq"
ScoreVsThreshold(i, divisor) ==
    LET n == Cardinality(Present(df, GroupIdx(df, i)))
        l == DevSq(i) * divisor * z_thresh[2] * z_thresh[2]
        r == z_thresh[1] * z_thresh[1] * n * Spread(i)
    IN IF z_thresh[1] < 0 \/ l > r THEN "gt" ELSE IF l < r THEN "lt" ELSE "eq"

Scored(i) ==
    /\ ~df[i].na
    /\ Cardinality(Present(df, GroupIdx(df, i))) >= 2
    /\ Spread(i) > 0

\* C5 as stated: the score is taken with the sample standard deviation
\* (divisor n-1) and the row is flagged exactly when |score| > z_thresh.
C5_SampleScore ==
    pc = "zscore" =>
        \A i \in DOMAIN df :
            Scored(i) =>
                LET c == ScoreVsThreshold(i, Cardinality(Present(df, GroupIdx(df, i))) - 1)
                IN /\ c = "gt" => flag_zscore[i]
                   /\ c = "lt" => ~flag_zscore[i]

\* C5 as amended: the score is (quantity - mean) / sigma with sigma the
\* population standard deviation (divisor n) of the group, and the row is
\* flagged exactly when |score| > z_thresh, strictly.
C5_PopulationScore ==
    pc = "zscore" =>
        \A i \in DOMAIN df :
            Scored(i) =>
                LET c == ScoreVsThreshold(i, Cardinality(Present(df, GroupIdx(df, i))))
                IN /\ c = "gt" => flag_zscore[i]
                   /\ c = "lt" => ~flag_zscore[i]

C5_Witness ==
    /\ pc = "zscore"
    /\ z_thresh[1] > 0
    /\ \E i \in DOMAIN df :
         /\ Scored(i)
         /\ flag_zscore[i]
         /\ ScoreVsThreshold(i, Cardinality(Present(df, GroupIdx(df, i))) - 1) = "lt"
    /\ \E i \in DOMAIN df : Scored(i) /\ ~flag_zscore[i]

\* the r-th smallest present quantity of row i's group, by counting
OrderStat(i, r) ==
    LET G == Present(df, GroupIdx(df, i))
    IN CHOOSE x \in {df[j].qtd : j \in G} :
           /\ Cardinality({j \in G : df[j].qtd < x}) < r
           /\ Cardinality({j \in G : df[j].qtd <= x}) >= r

\* 4 * the (pn/4)-quantile of row i's group: the values at the ranks around
\* position pn/4 * (n-1), weighted by the distance to each
Quartile4(i, pn) ==
    LET n == Cardinality(Present(df, GroupIdx(df, i)))
        pos4 == pn * (n - 1)
        lo == pos4 \div 4
        fr == pos4 % 4
        hi == IF fr = 0 THEN lo ELSE lo + 1
    IN (4 - fr) * OrderStat(i, lo + 1) + fr * OrderStat(i, hi + 1)

\* whether the quantity of row i is outside [Q1 - k*IQR, Q3 + k*IQR] of its
\* group, both sides of each comparison multiplied by 4 * k[2]
OutsideFences(i) ==
    LET q1 == Quartile4(i, 1)
        q3 == Quartile4(i, 3)
        x == 4 * k[2] * df[i].qtd
    IN \/ x < k[2] * q1 - k[1] * (q3 - q1)
       \/ x > k[2] * q3 + k[1] * (q3 - q1)

\* C6: a row is flagged by calc_iqr_flags exactly when its quantity is
\* below Q1 - k*IQR or above Q3 + k*IQR, strictly, Q1 and Q3 being the
\* quartiles of its own group by linear interpolation at p*(n-1).
C6_IqrFlags ==
    pc = "iqr" =>
        \A i \in DOMAIN df :
            flag_iqr[i] <=> (~df[i].na /\ OutsideFences(i))

C6_Witness ==
    /\ pc = "iqr"
    /\ k = DefaultK
    /\ \E i, j \in DOMAIN df :
         /\ flag_iqr[i]
         /\ ~df[j].na
         /\ ~flag_iqr[j]
         /\ GroupIdx(df, i) = GroupIdx(df, j)
         /\ Quartile4(i, 3) % 4 # 0

\* C7: the total is the sum of the impacts of the panel's entries, a whole
\* number of cents; it is 0 for an empty panel, and a dataset of no rows
\* gives an empty panel and the total 0.
PanelImpacto == [p \in DOMAIN painel |-> painel[p].impacto]

C8_MalformedRejected == Built => \A i \in DOMAIN df : ~df[i].na

\* the rows of the dataset with a present quantity, in order
PresentRows == SelectSeq(df, LAMBDA r : ~r.na)

\* the position among the present rows of row i
Rank(i) == Cardinality({j \in 1..i : ~df[j].na})

\* C8 as amended: a row of missing quantity is not rejected; it is never
\* flagged and never in the panel, and every other row gets the flags it
\* gets in the dataset without the rows of missing quantity.
C8_MissingQuantityOmitted ==
    Built =>
        /\ \A i \in DOMAIN df : df[i].na => (~Flagged(i) /\ PanelRowsOf(i) = {})
        /\ \E fz \in calc_zscore_flags(PresentRows, DefaultZ) :
             \A i \in DOMAIN df : ~df[i].na => flag_zscore[i] = fz[Rank(i)]
        /\ \A i \in DOMAIN df :
             ~df[i].na => flag_iqr[i] = calc_iqr_flags(PresentRows, DefaultK)[Rank(i)]

C8_Witness ==
    /\ pc = "panel"
    /\ \E i, j \in DOMAIN df :
         /\ df[i].na
         /\ i < j
         /\ GroupIdx(df, i) = GroupIdx(df, j)
         /\ flag_zscore[j]
         /\ PanelRowsOf(j) # {}

\* the rows of the scenario group with quantity -200
ScenarioOutliers ==
    {i \in DOMAIN df : /\ df[i].unidade = "U01"
                       /\ df[i].material = "MAT-001"
                       /\ df[i].qtd = -200}

\* C9 as stated: the row with quantity -200 is flagged by a detector and
\* is in the panel with impact exactly 200 * unit cost.
C9_ExactImpact ==
    Built =>
        \A i \in ScenarioOutliers :
            /\ Flagged(i)
            /\ \E p \in DOMAIN painel :
                 /\ painel[p].idx = i
                 /\ painel[p].impacto = 200 * df[i].custo_unit * (MoneyDen \div CostDen)

\* C9 as amended: the row with quantity -200 is flagged by a detector and
\* is in the panel with impact 200 * unit cost rounded to 2 decimals.
C9_RoundedImpact ==
    Built =>
        \A i \in ScenarioOutliers :
            /\ Flagged(i)
            /\ \E p \in DOMAIN painel :
                 LET exact == 200 * df[i].custo_unit * (MoneyDen \div CostDen)
                 IN /\ painel[p].idx = i
                    /\ painel[p].impacto % Cent = 0
                    /\ 2 * Abs(painel[p].impacto - exact) <= Cent

C9_Witness ==
    /\ pc = "panel"
    /\ Len(df) > Len(ScenarioQtd)
    /\ \E p \in DOMAIN painel :
         /\ painel[p].idx \in ScenarioOutliers
         /\ painel[p].flag_iqr
         /\ painel[p].impacto # 200 * df[painel[p].idx].custo_unit * (MoneyDen \div CostDen)

\* C10 as stated: with the default threshold no row of a group of 10 or
\* fewer rows is flagged by calc_zscore_flags.
C10_NoFlagUpToTen ==
    (pc = "zscore" /\ z_thresh = DefaultZ) =>
        \A i \in DOMAIN df : Cardinality(GroupIdx(df, i)) <= 10 => ~flag_zscore[i]

\* C10 as amended: with the default threshold no row of a group of 9 or
\* fewer rows is flagged by calc_zscore_flags.
C10_NoFlagUpToNine ==
    (pc = "zscore" /\ z_thresh = DefaultZ) =>
        \A i \in DOMAIN df : Cardinality(GroupIdx(df, i)) <= 9 => ~flag_zscore[i]

C10_Witness ==
    /\ pc = "zscore"
    /\ z_thresh = DefaultZ
    /\ \E i \in DOMAIN df :
         /\ Cardinality(GroupIdx(df, i)) = 9
         /\ Scored(i)
         /\ DevSq(i) = 8 * Spread(i)

====
